---- MODULE Spec2Model ----
(***************************************************************************)
(* xcomp: compare two paths (two files, or two directory trees) by the     *)
(* xxh64 digest of the files' content, with an optional hash cache.        *)
(*                                                                         *)
(* Strings are sequences of one-character strings, so that the regular     *)
(* expression of load_hash_cache, os.path.abspath and os.path.join are     *)
(* computed character by character.  A run of main() is one behaviour: the *)
(* file system and the arguments are chosen in Init and never change.      *)
(***************************************************************************)
EXTENDS Integers, Sequences, FiniteSets, TLC

VARIABLES
    fs,          \* the file system: node (sequence of names) -> entry
    args,        \* the arguments record: path1, path2, cache_file, recursive, verbose
    pc,          \* position of the run: "start", "index1", "index2", "report", "done"
    branch,      \* the branch of main() that was taken ("none" before the dispatch)
    out,         \* the lines printed so far
    exit_code,   \* the process's exit status, NoExit while running
    hash_cache,  \* get_hash_dict's local hash_cache, as last loaded
    dict_path1,  \* show_directory_comparison's dict_path1
    dict_path2,  \* show_directory_comparison's dict_path2
    hashed       \* the file names xxh3 was called with, in order

vars == <<fs, args, pc, branch, out, exit_code, hash_cache, dict_path1, dict_path2, hashed>>

----------------------------------------------------------------------------
(* Bounds of the model. *)

\* Files placed in the compared trees of the tree family of inputs.
MaxFiles == 3

\* Lines of one cache source in the cache family of inputs.
MaxLines == 2

\* Length of a hexdigest of xxh64 (64 bits), the {16} of the cache regex.
DigestLen == 16

NoExit == 0 - 1

----------------------------------------------------------------------------
(* Strings. *)

SLASH == "/"
QUOTE == "'"

HexChars == {"0", "1", "2", "3", "4", "5", "6", "7", "8", "9",
             "a", "b", "c", "d", "e", "f"}

BlankChars == {" ", "\t"}

StartsWith(s, c) == Len(s) >= 1 /\ s[1] = c

EndsWith(s, c) == Len(s) >= 1 /\ s[Len(s)] = c

\* str.split('/'): the components between the slashes, empty ones included.
RECURSIVE Split(_)
Split(s) ==
    IF s = <<>> THEN << <<>> >>
    ELSE LET rest == Split(Tail(s))
         IN  IF Head(s) = SLASH
             THEN << <<>> >> \o rest
             ELSE << <<Head(s)>> \o Head(rest) >> \o Tail(rest)

\* '/'.join(comps)
RECURSIVE JoinComps(_)
JoinComps(comps) ==
    IF comps = <<>> THEN <<>>
    ELSE IF Len(comps) = 1 THEN comps[1]
    ELSE comps[1] \o <<SLASH>> \o JoinComps(Tail(comps))

Last(s) == s[Len(s)]

Front(s) == SubSeq(s, 1, Len(s) - 1)

----------------------------------------------------------------------------
(* os.path (posixpath) as xcomp uses it. *)

\* The process's working directory.
Cwd == <<"/", "w">>

\* posixpath.join(a, b)
join(a, b) ==
    IF StartsWith(b, SLASH) THEN b
    ELSE IF a = <<>> \/ EndsWith(a, SLASH) THEN a \o b
    ELSE a \o <<SLASH>> \o b

\* The loop of posixpath.normpath over the components.
RECURSIVE NormComps(_, _, _)
NormComps(comps, new_comps, initial_slashes) ==
    IF comps = <<>> THEN new_comps
    ELSE LET comp == Head(comps)
             rest == Tail(comps)
         IN  IF comp = <<>> \/ comp = <<".">>
             THEN NormComps(rest, new_comps, initial_slashes)
             ELSE IF \/ comp # <<".", ".">>
                     \/ (initial_slashes = 0 /\ new_comps = <<>>)
                     \/ (new_comps # <<>> /\ Last(new_comps) = <<".", ".">>)
             THEN NormComps(rest, Append(new_comps, comp), initial_slashes)
             ELSE IF new_comps # <<>>
             THEN NormComps(rest, Front(new_comps), initial_slashes)
             ELSE NormComps(rest, new_comps, initial_slashes)

\* posixpath.normpath(path)
normpath(path) ==
    IF path = <<>> THEN <<".">>
    ELSE LET initial_slashes ==
                 IF ~StartsWith(path, SLASH) THEN 0
                 ELSE IF /\ Len(path) >= 2 /\ path[2] = SLASH
                         /\ ~(Len(path) >= 3 /\ path[3] = SLASH)
                      THEN 2
                      ELSE 1
             body == JoinComps(NormComps(Split(path), <<>>, initial_slashes))
             res  == [i \in 1..initial_slashes |-> SLASH] \o body
         IN  IF res = <<>> THEN <<".">> ELSE res

\* posixpath.abspath(path)
abspath(path) ==
    IF StartsWith(path, SLASH) THEN normpath(path) ELSE normpath(join(Cwd, path))

----------------------------------------------------------------------------
(* The file system.  A node is the sequence of names from the root; an     *)
(* entry is [kind, content] with kind "dir", "file", "broken" (a dangling  *)
(* symbolic link: listed in its directory, but it does not exist for       *)
(* stat) or "other" (a FIFO, a device).                                    *)

Missing == << <<"?">>, <<"?">> >>

KindOf(f, node) == IF node \in DOMAIN f THEN f[node].kind ELSE "absent"

\* The kernel's path resolution: every component is looked up in a directory.
RECURSIVE ResolveFrom(_, _, _)
ResolveFrom(f, cur, comps) ==
    IF comps = <<>> THEN cur
    ELSE IF KindOf(f, cur) # "dir" THEN Missing
    ELSE LET comp == Head(comps)
             nxt  == IF comp = <<>> \/ comp = <<".">> THEN cur
                     ELSE IF comp = <<".", ".">>
                          THEN (IF cur = <<>> THEN cur ELSE Front(cur))
                          ELSE Append(cur, comp)
         IN  ResolveFrom(f, nxt, Tail(comps))

NonEmpty(comps) == SelectSeq(comps, LAMBDA c : c # <<>>)

Resolve(f, path) ==
    IF path = <<>> THEN Missing
    ELSE IF StartsWith(path, SLASH) THEN ResolveFrom(f, <<>>, Tail(Split(path)))
    ELSE ResolveFrom(f, NonEmpty(Split(Cwd)), Split(path))

Stat(f, path) == KindOf(f, Resolve(f, path))

\* os.path.exists, os.path.isfile, os.path.isdir
exists(f, path) == Stat(f, path) \notin {"absent", "broken"}

isfile(f, path) == Stat(f, path) = "file"

isdir(f, path) == Stat(f, path) = "dir"

ContentOf(f, path) == f[Resolve(f, path)].content

----------------------------------------------------------------------------
(* The hash primitive.  xxh64 is an external collaborator: it is modelled  *)
(* as an injective table from the contents of the model to hexdigests.     *)

Contents == {"x", "y"}

HexDigit == [x |-> "1", y |-> "2"]

HexRun(n, h) == [i \in 1..n |-> h]

\* xxh64().update(content).hexdigest()
XXH64(content) == HexRun(DigestLen, HexDigit[content])

\* A printed line: a sigil (or the kind of a diagnostic), a digest, paths.
Line(tag, key, paths) == [tag |-> tag, key |-> key, paths |-> paths]

Diag(tag, paths) == Line(tag, <<>>, paths)

\* xxh3(file_name): the digest, or the diagnostic and SystemExit(1).
xxh3(f, file_name) ==
    IF exists(f, file_name)
    THEN [ok |-> TRUE, hash |-> XXH64(ContentOf(f, file_name)), out |-> <<>>]
    ELSE [ok |-> FALSE, hash |-> <<>>,
          out |-> <<Diag("target-missing", <<file_name>>)>>]

----------------------------------------------------------------------------
(* load_hash_cache: search("([a-f0-9]{16})[ \t]+'?([^'\n]+)'?", line).     *)
(* A line of the model is the line without its newline.                    *)

NoMatch == [matched |-> FALSE, group1 |-> <<>>, group2 |-> <<>>]

\* ([a-f0-9]{16}) at position i
HexAt(line, i) ==
    /\ i + DigestLen - 1 <= Len(line)
    /\ \A k \in i..(i + DigestLen - 1) : line[k] \in HexChars

\* The length of the longest run of characters of `set` from position j.
RECURSIVE RunLen(_, _, _)
RunLen(line, j, set) ==
    IF j <= Len(line) /\ line[j] \in set
    THEN 1 + RunLen(line, j + 1, set)
    ELSE 0

NotQuote(line) == {line[i] : i \in 1..Len(line)} \ {QUOTE}

\* '?([^'\n]+) at position p: where group 2 starts, 0 when it cannot match.
\* The greedy '? takes a quote first and gives it back only on failure.
Group2Start(line, p) ==
    IF p <= Len(line) /\ line[p] = QUOTE /\ p + 1 <= Len(line) /\ line[p + 1] # QUOTE
    THEN p + 1
    ELSE IF p <= Len(line) /\ line[p] # QUOTE THEN p
    ELSE 0

\* The match that starts at position i, the greedy [ \t]+ backtracking from
\* the whole run of blanks down to one blank.
MatchAt(line, i) ==
    IF ~HexAt(line, i) THEN NoMatch
    ELSE LET j  == i + DigestLen
             b  == RunLen(line, j, BlankChars)
             ks == {k \in 1..b : Group2Start(line, j + k) # 0}
         IN  IF ks = {} THEN NoMatch
             ELSE LET k  == CHOOSE m \in ks : \A n \in ks : n <= m
                      st == Group2Start(line, j + k)
                      n  == RunLen(line, st, NotQuote(line))
                  IN  [matched |-> TRUE,
                       group1  |-> SubSeq(line, i, j - 1),
                       group2  |-> SubSeq(line, st, st + n - 1)]

\* re.search: the match at the leftmost position that has one.
search(line) ==
    LET starts == {i \in 1..Len(line) : MatchAt(line, i).matched}
    IN  IF starts = {} THEN NoMatch
        ELSE MatchAt(line, CHOOSE i \in starts : \A j \in starts : i <= j)

\* The lines of a text file (a special file such as /dev/null reads empty).
ReadLines(f, file) == ContentOf(f, file)

\* `for line in file_object`: the matching lines write their entry, the
\* later line overwriting the earlier one.
\* `if match:` of one line
ScanLine(match, acc) ==
    IF match.matched
    THEN [at_least_one_match |-> TRUE,
          hash_cache |-> (abspath(match.group2) :> match.group1) @@ acc.hash_cache]
    ELSE acc

RECURSIVE ScanLines(_, _)
ScanLines(lines, acc) ==
    IF lines = <<>> THEN acc
    ELSE ScanLines(Tail(lines), ScanLine(search(Head(lines)), acc))

\* Mutant of ScanSources: at_least_one_match is reset for every source, so
\* only the last source decides whether the format is accepted.
RECURSIVE ScanSources_flag_per_source(_, _, _)
ScanSources_flag_per_source(f, files, acc) ==
    IF files = <<>> THEN [ok |-> TRUE, acc |-> acc, out |-> <<>>]
    ELSE LET file == Head(files)
         IN  IF ~exists(f, file)
             THEN [ok |-> FALSE, acc |-> acc,
                   out |-> <<Diag("cache-missing", <<file>>)>>]
             ELSE IF isdir(f, file)
             THEN [ok |-> FALSE, acc |-> acc,
                   out |-> <<Diag("traceback", <<file>>)>>]
             ELSE ScanSources_flag_per_source(f, Tail(files),
                      ScanLines(ReadLines(f, file),
                          [at_least_one_match |-> FALSE, hash_cache |-> acc.hash_cache]))

\* `for file in args.cache_file`: a source that does not exist ends the run.
RECURSIVE ScanSources(_, _, _)
ScanSources(f, files, acc) ==
    IF files = <<>> THEN [ok |-> TRUE, acc |-> acc, out |-> <<>>]
    ELSE LET file == Head(files)
         IN  IF ~exists(f, file)
             THEN [ok |-> FALSE, acc |-> acc,
                   out |-> <<Diag("cache-missing", <<file>>)>>]
             ELSE IF isdir(f, file)
             THEN [ok |-> FALSE, acc |-> acc,
                   out |-> <<Diag("traceback", <<file>>)>>]
             ELSE ScanSources(f, Tail(files), ScanLines(ReadLines(f, file), acc))

EmptyCache == [p \in {} |-> <<>>]

\* `if not at_least_one_match` once the sources are scanned.
CacheResult(a, scan) ==
    IF ~scan.ok
    THEN [ok |-> FALSE, hash_cache |-> EmptyCache, out |-> scan.out]
    ELSE IF ~scan.acc.at_least_one_match
    THEN [ok |-> FALSE, hash_cache |-> EmptyCache,
          out |-> <<Diag("cache-format", <<Last(a.cache_file)>>)>>]
    ELSE [ok |-> TRUE, hash_cache |-> scan.acc.hash_cache, out |-> <<>>]

\* load_hash_cache(args): [ok, hash_cache, out]; ok = FALSE is SystemExit(1).
load_hash_cache(f, a) ==
    CacheResult(a, ScanSources(f, a.cache_file,
                       [at_least_one_match |-> FALSE, hash_cache |-> EmptyCache]))

----------------------------------------------------------------------------
(* get_hash_dict: the DigestIndex of a directory.  A dict is the sequence  *)
(* of its items [key, paths] in insertion order, as Python iterates it.    *)

\* The names a directory can hold, in the order scandir lists them.
NameOrder == << <<"a">>, <<"b">>, <<"c">>, <<"d">>, <<"s">>, <<"t">>,
                <<"p">>, <<"q">>, <<"r">>, <<"u">>, <<"v">> >>

Children(f, node) == SelectSeq(NameOrder, LAMBDA nm : Append(node, nm) \in DOMAIN f)

\* os.walk(top), top-down, symbolic links not followed: the sequence of
\* (current_directory, file_names) it yields; nothing when top is no directory.
RECURSIVE walk(_, _), WalkDirs(_, _, _)
walk(f, top) ==
    IF ~isdir(f, top) THEN <<>>
    ELSE LET node    == Resolve(f, top)
             kids    == Children(f, node)
             dirs    == SelectSeq(kids, LAMBDA nm : KindOf(f, Append(node, nm)) = "dir")
             nondirs == SelectSeq(kids, LAMBDA nm : KindOf(f, Append(node, nm)) # "dir")
         IN  <<[current_directory |-> top, file_names |-> nondirs]>>
                 \o WalkDirs(f, top, dirs)
WalkDirs(f, top, dirs) ==
    IF dirs = <<>> THEN <<>>
    ELSE walk(f, join(top, Head(dirs))) \o WalkDirs(f, top, Tail(dirs))

KeyIn(key, dict) == \E i \in 1..Len(dict) : dict[i].key = key

Get(dict, key) == dict[CHOOSE i \in 1..Len(dict) : dict[i].key = key].paths

\* result_dict[hash].append(file_full_path), or result_dict[hash] = [file_full_path]
DictAdd(dict, hash, file_full_path) ==
    IF KeyIn(hash, dict)
    THEN [i \in 1..Len(dict) |->
             IF dict[i].key = hash
             THEN [key |-> hash, paths |-> Append(dict[i].paths, file_full_path)]
             ELSE dict[i]]
    ELSE Append(dict, [key |-> hash, paths |-> <<file_full_path>>])

\* The file is added to the bucket of `hash` (and printed when verbose).
Indexed(a, tag, hash, file_full_path, acc, calls) ==
    [ok |-> TRUE,
     result_dict |-> DictAdd(acc.result_dict, hash, file_full_path),
     hashed |-> acc.hashed \o calls,
     out |-> acc.out \o
             (IF a.verbose THEN <<Line(tag, hash, <<file_full_path>>)>> ELSE <<>>)]

\* The file's digest is computed: h is what xxh3 returned.
Computed(a, h, file_full_path, acc) ==
    IF ~h.ok
    THEN [ok |-> FALSE, result_dict |-> acc.result_dict,
          hashed |-> Append(acc.hashed, file_full_path),
          out |-> acc.out \o h.out]
    ELSE Indexed(a, "verbose", h.hash, file_full_path, acc, <<file_full_path>>)

\* Mutant of VisitFile: a cached digest is used only when it is the digest
\* of the content (the cache is cross-checked).
VisitFile_cross_checked(f, a, cache, file_full_path, acc) ==
    IF file_full_path \in DOMAIN cache /\ xxh3(f, file_full_path).ok
           /\ cache[file_full_path] = xxh3(f, file_full_path).hash
    THEN Indexed(a, "verbose-cached", cache[file_full_path], file_full_path, acc, <<>>)
    ELSE Computed(a, xxh3(f, file_full_path), file_full_path, acc)

\* The body of `for file_name in file_names` for one file: the cached digest
\* when the path is a key of the cache, xxh3 otherwise.
VisitFile(f, a, cache, file_full_path, acc) ==
    IF file_full_path \in DOMAIN cache
    THEN Indexed(a, "verbose-cached", cache[file_full_path], file_full_path, acc, <<>>)
    ELSE Computed(a, xxh3(f, file_full_path), file_full_path, acc)

\* `for file_name in file_names` of one directory; a failed xxh3 ends the run.
RECURSIVE VisitFiles(_, _, _, _, _, _)
VisitFiles(f, a, cache, current_directory, file_names, acc) ==
    IF file_names = <<>> \/ ~acc.ok THEN acc
    ELSE VisitFiles(f, a, cache, current_directory, Tail(file_names),
             VisitFile(f, a, cache,
                 abspath(join(current_directory, Head(file_names))), acc))

\* `for current_directory, _, file_names in walk(directory_path)`, with the
\* return after the first directory when args.recursive is not set.
\* Mutant of VisitDirs: the return after the first directory does not test
\* args.recursive.
VisitDirs_first_only(f, a, cache, yields, acc) ==
    IF yields = <<>> \/ ~acc.ok THEN acc
    ELSE VisitFiles(f, a, cache, Head(yields).current_directory,
             Head(yields).file_names, acc)

RECURSIVE VisitDirs(_, _, _, _, _)
VisitDirs(f, a, cache, yields, acc) ==
    IF yields = <<>> \/ ~acc.ok THEN acc
    ELSE IF ~a.recursive
    THEN VisitFiles(f, a, cache, Head(yields).current_directory,
             Head(yields).file_names, acc)
    ELSE VisitDirs(f, a, cache, Tail(yields),
             VisitFiles(f, a, cache, Head(yields).current_directory,
                 Head(yields).file_names, acc))

\* `if args.cache_file: hash_cache = load_hash_cache(args)`;
\* args.cache_file is <<>> for None.
LoadedCache(f, a) ==
    IF a.cache_file # <<>>
    THEN load_hash_cache(f, a)
    ELSE [ok |-> TRUE, hash_cache |-> EmptyCache, out |-> <<>>]

\* The walk of get_hash_dict under the loaded cache.
IndexUnder(f, a, directory_path, cache) ==
    [hash_cache |-> cache] @@
    VisitDirs(f, a, cache, walk(f, directory_path),
        [ok |-> TRUE, result_dict |-> <<>>, hashed |-> <<>>, out |-> <<>>])

IndexAfter(f, a, directory_path, loaded) ==
    IF ~loaded.ok
    THEN [ok |-> FALSE, result_dict |-> <<>>, hash_cache |-> EmptyCache,
          hashed |-> <<>>, out |-> loaded.out]
    ELSE IndexUnder(f, a, directory_path, loaded.hash_cache)

\* get_hash_dict(directory_path, args): [ok, result_dict, hash_cache, hashed, out];
\* ok = FALSE is SystemExit(1).
get_hash_dict(f, a, directory_path) ==
    IndexAfter(f, a, directory_path, LoadedCache(f, a))

----------------------------------------------------------------------------
(* show_file_comparison *)

\* The lines of `if args.verbose`.
VerboseFiles(a, hash1, hash2, p1, p2) ==
    IF a.verbose
    THEN <<Line("verbose", hash1, <<p1>>), Line("verbose", hash2, <<p2>>)>>
    ELSE <<>>

\* Mutant of FileVerdict: the pair line is printed when the absolute paths
\* differ, not when the path strings differ.
FileVerdict_absolute(a, hash1, hash2, p1, p2) ==
    IF hash1 = hash2
    THEN [exit |-> 0,
          out |-> VerboseFiles(a, hash1, hash2, p1, p2)
                  \o (IF p1 # p2 THEN <<Line("=", hash1, <<p1, p2>>)>> ELSE <<>>)
                  \o <<Line("=files", <<>>, <<>>)>>,
          hashed |-> <<a.path1, a.path2>>]
    ELSE [exit |-> 1,
          out |-> VerboseFiles(a, hash1, hash2, p1, p2)
                  \o <<Line("<", hash1, <<p1>>), Line(">", hash2, <<p2>>)>>,
          hashed |-> <<a.path1, a.path2>>]

\* `if hash1 == hash2 ... else ...`, p1 and p2 the absolute paths.
FileVerdict(a, hash1, hash2, p1, p2) ==
    IF hash1 = hash2
    THEN [exit |-> 0,
          out |-> VerboseFiles(a, hash1, hash2, p1, p2)
                  \o (IF a.path1 # a.path2 THEN <<Line("=", hash1, <<p1, p2>>)>> ELSE <<>>)
                  \o <<Line("=files", <<>>, <<>>)>>,
          hashed |-> <<a.path1, a.path2>>]
    ELSE [exit |-> 1,
          out |-> VerboseFiles(a, hash1, hash2, p1, p2)
                  \o <<Line("<", hash1, <<p1>>), Line(">", hash2, <<p2>>)>>,
          hashed |-> <<a.path1, a.path2>>]

\* The two calls of xxh3, either of which may end the run.
FileHashes(a, h1, h2, p1, p2) ==
    IF ~h1.ok THEN [exit |-> 1, out |-> h1.out, hashed |-> <<a.path1>>]
    ELSE IF ~h2.ok THEN [exit |-> 1, out |-> h2.out, hashed |-> <<a.path1, a.path2>>]
    ELSE FileVerdict(a, h1.hash, h2.hash, p1, p2)

\* show_file_comparison(args): [exit, out, hashed]
show_file_comparison(f, a) ==
    FileHashes(a, xxh3(f, a.path1), xxh3(f, a.path2), abspath(a.path1), abspath(a.path2))

----------------------------------------------------------------------------
(* show_directory_comparison, after the two indexes are built *)

\* One line per path of a bucket.
PerPath(tag, item) == [i \in 1..Len(item.paths) |-> Line(tag, item.key, <<item.paths[i]>>)]

RECURSIVE Concat(_)
Concat(seqs) == IF seqs = <<>> THEN <<>> ELSE Head(seqs) \o Concat(Tail(seqs))


\* Mutant of DuplicateLines: `> 2` for `> 1`.
DuplicateLines_over_two(tag, dict) ==
    Concat([i \in 1..Len(dict) |->
        LET item == dict[i]
        IN  IF Len(item.paths) > 2
            THEN <<Line(tag, item.key, item.paths)>>
            ELSE <<>>])

\* The two loops over the buckets of more than one path.
DuplicateLines(tag, dict) ==
    Concat([i \in 1..Len(dict) |->
        LET item == dict[i]
        IN  IF Len(item.paths) > 1
            THEN <<Line(tag, item.key, item.paths)>>
            ELSE <<>>])

\* `for key in dict_path1: if key not in dict_path2`
LeftLines(d1, d2) ==
    Concat([i \in 1..Len(d1) |->
        LET item == d1[i]
        IN  IF ~KeyIn(item.key, d2) THEN PerPath("<", item) ELSE <<>>])

\* `for key in dict_path2: if key not in dict_path1 ... else ...`
RightLines(d1, d2) ==
    Concat([i \in 1..Len(d2) |->
        LET item == d2[i]
        IN  IF ~KeyIn(item.key, d1)
            THEN PerPath(">", item)
            ELSE <<Line("=", item.key, Get(d1, item.key) \o item.paths)>>])

\* Mutant of content_redundancy: the loop over dict_path2 does not clear it.
content_redundancy_left_only(d1, d2) ==
    ~\E i \in 1..Len(d1) : ~KeyIn(d1[i].key, d2)

\* content_redundancy when the four loops have run: it starts TRUE and is
\* cleared by a key of either dict that the other dict does not hold.
content_redundancy(d1, d2) ==
    /\ ~\E i \in 1..Len(d1) : ~KeyIn(d1[i].key, d2)
    /\ ~\E i \in 1..Len(d2) : ~KeyIn(d2[i].key, d1)

\* The lines show_directory_comparison prints from the two indexes.
directory_report(d1, d2) ==
    DuplicateLines("{", d1) \o DuplicateLines("}", d2)
        \o LeftLines(d1, d2) \o RightLines(d1, d2)
        \o (IF content_redundancy(d1, d2) THEN <<Line("=dirs", <<>>, <<>>)>> ELSE <<>>)

----------------------------------------------------------------------------
(* main *)

\* Mutant of main_branch: `and` for `or` in the test of the missing paths.
main_branch_both_missing(f, a) ==
    IF isfile(f, a.path1) /\ isfile(f, a.path2) THEN "file"
    ELSE IF isdir(f, a.path1) /\ isdir(f, a.path2) THEN "dir"
    ELSE IF ~exists(f, a.path1) /\ ~exists(f, a.path2) THEN "missing"
    ELSE IF isfile(f, a.path1) /\ isdir(f, a.path2) THEN "file-dir"
    ELSE IF isdir(f, a.path1) /\ isfile(f, a.path2) THEN "dir-file"
    ELSE "fallthrough"

\* The branch of main()'s if / elif chain that args select.
main_branch(f, a) ==
    IF isfile(f, a.path1) /\ isfile(f, a.path2) THEN "file"
    ELSE IF isdir(f, a.path1) /\ isdir(f, a.path2) THEN "dir"
    ELSE IF ~exists(f, a.path1) \/ ~exists(f, a.path2) THEN "missing"
    ELSE IF isfile(f, a.path1) /\ isdir(f, a.path2) THEN "file-dir"
    ELSE IF isdir(f, a.path1) /\ isfile(f, a.path2) THEN "dir-file"
    ELSE "fallthrough"

----------------------------------------------------------------------------
(* The inputs of a run: a file system under the working directory /w and   *)
(* the arguments.  Three families of inputs are drawn, each wide in one    *)
(* direction: the kinds of the two paths, the compared trees, the cache    *)
(* sources.                                                                *)

DirEntry == [kind |-> "dir", content |-> <<>>]

FileEntry(content) == [kind |-> "file", content |-> content]

BrokenEntry == [kind |-> "broken", content |-> <<>>]

OtherEntry == [kind |-> "other", content |-> <<>>]

\* Nodes under the working directory.
W == << <<"w">> >>
NodeA == << <<"w">>, <<"a">> >>
NodeB == << <<"w">>, <<"b">> >>
NodeC == << <<"w">>, <<"c">> >>
NodeD == << <<"w">>, <<"d">> >>
NodeAS == Append(NodeA, <<"s">>)
NodeAST == Append(NodeAS, <<"t">>)

FileNames == << <<"p">>, <<"q">>, <<"r">>, <<"u">>, <<"v">> >>

BaseFS == (<<>> :> DirEntry) @@ (W :> DirEntry)

\* A file system from a set of <<node, entry>> pairs.
RECURSIVE WithEntries(_, _)
WithEntries(f, pairs) ==
    IF pairs = {} THEN f
    ELSE LET pr == CHOOSE x \in pairs : TRUE
         IN  WithEntries((pr[1] :> pr[2]) @@ f, pairs \ {pr})

\* Lines of cache sources; each exercises a path through the regex.
DigestX == XXH64("x")
DigestY == XXH64("y")
DigestE == HexRun(DigestLen, "e")

\* 1111111111111111 'a/p'
LineQuoted == DigestX \o <<" ", "'", "a", "/", "p", "'">>
\* #22222222222222222<TAB><TAB>/w/a/p : 17 hex digits, the last 16 match
LineLong == <<"#">> \o HexRun(DigestLen + 1, "2") \o <<"\t", "\t", "/", "w", "/", "a", "/", "p">>
\* 111111111111111 a/q : 15 hex digits, no match
LineShort == HexRun(DigestLen - 1, "1") \o <<" ", "a", "/", "q">>
\* eeeeeeeeeeeeeeee  './b/p : the quote is never closed
LineOpen == DigestE \o <<" ", " ", "'", ".", "/", "b", "/", "p">>

CacheLines == {LineQuoted, LineLong, LineShort, LineOpen}

SeqsUpTo(S, n) == UNION {[1..k -> S] : k \in 0..n}

StartState(f, a) ==
    /\ fs = f
    /\ args = a
    /\ pc = "start"
    /\ branch = "none"
    /\ out = <<>>
    /\ exit_code = NoExit
    /\ hash_cache = EmptyCache
    /\ dict_path1 = <<>>
    /\ dict_path2 = <<>>
    /\ hashed = <<>>

Args(p1, p2, c, r, v) ==
    [path1 |-> p1, path2 |-> p2, cache_file |-> c, recursive |-> r, verbose |-> v]

\* The kinds family: /w/a and /w/b are each absent, a dangling link, a
\* special file, a file or a directory (holding one file).
TopEntries == {"absent", "broken", "other", "file-x", "file-y", "dir"}

TopPairs(node, top) ==
    IF top = "absent" THEN {}
    ELSE IF top = "broken" THEN {<<node, BrokenEntry>>}
    ELSE IF top = "other" THEN {<<node, OtherEntry>>}
    ELSE IF top = "file-x" THEN {<<node, FileEntry("x")>>}
    ELSE IF top = "file-y" THEN {<<node, FileEntry("y")>>}
    ELSE {<<node, DirEntry>>, <<Append(node, <<"p">>), FileEntry("x")>>}

KindPaths == { <<"a">>, <<".", "/", "a">>, <<"/", "w", "/", "a">>, <<"b">>,
               <<"a", "/", "p">> }

\* No cache; a cache source that does not exist; a cache source of one line.
KindCaches == { [cache_file |-> <<>>, pairs |-> {}],
                [cache_file |-> << <<"c">> >>, pairs |-> {}],
                [cache_file |-> << <<"c">> >>,
                 pairs |-> {<<NodeC, FileEntry(<<LineQuoted>>)>>}] }

InitKinds ==
    \E ta \in TopEntries, tb \in TopEntries, p1 \in KindPaths, p2 \in KindPaths,
       c \in KindCaches, v \in BOOLEAN :
        StartState(WithEntries(BaseFS, TopPairs(NodeA, ta) \cup TopPairs(NodeB, tb)
                                           \cup c.pairs),
                   Args(p1, p2, c.cache_file, FALSE, v))

\* The trees family: directories /w/a, /w/a/s, /w/a/s/t and /w/b, and up to
\* MaxFiles files (or dangling links) placed in them.
TreeDirs == <<NodeA, NodeAS, NodeAST, NodeB>>

TreeEntries == {FileEntry(c) : c \in Contents} \cup {BrokenEntry}

\* The files of a placement: the k-th file of a directory is named FileNames[k].
PlacedPairs(placing) ==
    { <<Append(TreeDirs[placing[i][1]],
               FileNames[Cardinality({j \in 1..i : placing[j][1] = placing[i][1]})]),
        placing[i][2]>> : i \in DOMAIN placing }

Sorted(placing) ==
    \A i \in DOMAIN placing : \A j \in DOMAIN placing :
        i < j => placing[i][1] <= placing[j][1]

TreeFS(placing) ==
    WithEntries(BaseFS, {<<TreeDirs[i], DirEntry>> : i \in DOMAIN TreeDirs}
                            \cup PlacedPairs(placing))

TreePaths == { <<<<"a">>, <<"b">>>>,
               <<<<"a">>, <<"a", "/", "s">>>>,
               <<<<"a", "/", "s", "/">>, <<".", "/", "b">>>> }

InitTrees ==
    \E n \in 0..MaxFiles :
        \E placing \in [1..n -> (DOMAIN TreeDirs) \X TreeEntries] :
            /\ Sorted(placing)
            /\ \E pp \in TreePaths, r \in BOOLEAN :
                   StartState(TreeFS(placing), Args(pp[1], pp[2], <<>>, r, FALSE))

\* The caches family: /w/a = {p: x, q: y}, /w/b = {p: x}, and the cache
\* sources c (absent, or up to MaxLines lines) and d (absent, or up to one line).
CacheTreePairs ==
    { <<NodeA, DirEntry>>, <<Append(NodeA, <<"p">>), FileEntry("x")>>,
      <<Append(NodeA, <<"q">>), FileEntry("y")>>,
      <<NodeB, DirEntry>>, <<Append(NodeB, <<"p">>), FileEntry("x")>> }

CacheArgs == { << <<"c">> >>, << <<"c">>, <<"d">> >>, << <<"d">>, <<".", "/", "c">> >> }

SourcePairs(node, lines) ==
    IF lines = <<"absent">> THEN {} ELSE {<<node, FileEntry(lines)>>}

InitCaches ==
    \E lc \in SeqsUpTo(CacheLines, MaxLines) \cup {<<"absent">>},
       ld \in SeqsUpTo(CacheLines, 1) \cup {<<"absent">>},
       cf \in CacheArgs, v \in BOOLEAN :
        StartState(WithEntries(BaseFS, CacheTreePairs \cup SourcePairs(NodeC, lc)
                                           \cup SourcePairs(NodeD, ld)),
                   Args(<<"a">>, <<"b">>, cf, FALSE, v))

Init == InitKinds \/ InitTrees \/ InitCaches

----------------------------------------------------------------------------
(* The steps of a run. *)

Exit(code, lines) ==
    /\ pc' = "done"
    /\ exit_code' = code
    /\ out' = out \o lines

\* main: both paths are files, show_file_comparison runs.
Returned(r) ==
    /\ Exit(r.exit, r.out)
    /\ hashed' = r.hashed

MainFiles ==
    /\ pc = "start"
    /\ main_branch(fs, args) = "file"
    /\ Returned(show_file_comparison(fs, args))
    /\ branch' = "file"
    /\ UNCHANGED <<fs, args, hash_cache, dict_path1, dict_path2>>

\* main: both paths are directories, show_directory_comparison is entered.
MainDirs ==
    /\ pc = "start"
    /\ main_branch(fs, args) = "dir"
    /\ pc' = "index1"
    /\ branch' = "dir"
    /\ UNCHANGED <<fs, args, out, exit_code, hash_cache, dict_path1, dict_path2, hashed>>

\* main: a path does not exist; one diagnostic per missing path.
MainMissing ==
    /\ pc = "start"
    /\ main_branch(fs, args) = "missing"
    /\ Exit(1, (IF ~exists(fs, args.path1)
                THEN <<Diag("path-missing", <<args.path1>>)>> ELSE <<>>)
               \o (IF ~exists(fs, args.path2)
                   THEN <<Diag("path-missing", <<args.path2>>)>> ELSE <<>>))
    /\ branch' = "missing"
    /\ UNCHANGED <<fs, args, hash_cache, dict_path1, dict_path2, hashed>>

\* main: a file against a directory.
MainFileDir ==
    /\ pc = "start"
    /\ main_branch(fs, args) = "file-dir"
    /\ Exit(1, <<Diag("file-with-directory", <<args.path1, args.path2>>)>>)
    /\ branch' = "file-dir"
    /\ UNCHANGED <<fs, args, hash_cache, dict_path1, dict_path2, hashed>>

\* main: a directory against a file.
MainDirFile ==
    /\ pc = "start"
    /\ main_branch(fs, args) = "dir-file"
    /\ Exit(1, <<Diag("directory-with-file", <<args.path1, args.path2>>)>>)
    /\ branch' = "dir-file"
    /\ UNCHANGED <<fs, args, hash_cache, dict_path1, dict_path2, hashed>>

\* main: no branch of the if / elif chain is taken, main returns.
MainFallThrough ==
    /\ pc = "start"
    /\ main_branch(fs, args) = "fallthrough"
    /\ Exit(0, <<>>)
    /\ branch' = "fallthrough"
    /\ UNCHANGED <<fs, args, hash_cache, dict_path1, dict_path2, hashed>>

\* get_hash_dict returned r, or ended the run.
Indexing(r, next_pc) ==
    /\ hash_cache' = r.hash_cache
    /\ hashed' = hashed \o r.hashed
    /\ IF r.ok
       THEN /\ pc' = next_pc
            /\ out' = out \o r.out
            /\ UNCHANGED exit_code
       ELSE Exit(1, r.out)

Index1(r) ==
    /\ Indexing(r, "index2")
    /\ dict_path1' = r.result_dict

Index2(r) ==
    /\ Indexing(r, "report")
    /\ dict_path2' = r.result_dict

\* show_directory_comparison: dict_path1 = get_hash_dict(args.path1, args)
IndexPath1 ==
    /\ pc = "index1"
    /\ Index1(get_hash_dict(fs, args, args.path1))
    /\ UNCHANGED <<fs, args, branch, dict_path2>>

\* show_directory_comparison: dict_path2 = get_hash_dict(args.path2, args)
IndexPath2 ==
    /\ pc = "index2"
    /\ Index2(get_hash_dict(fs, args, args.path2))
    /\ UNCHANGED <<fs, args, branch, dict_path1>>

\* show_directory_comparison: the four loops and the overall line; main
\* then returns and the process exits with status 0.
Report ==
    /\ pc = "report"
    /\ Exit(0, directory_report(dict_path1, dict_path2))
    /\ UNCHANGED <<fs, args, branch, hash_cache, dict_path1, dict_path2, hashed>>

Next ==
    \/ MainFiles
    \/ MainDirs
    \/ MainMissing
    \/ MainFileDir
    \/ MainDirFile
    \/ MainFallThrough
    \/ IndexPath1
    \/ IndexPath2
    \/ Report

Spec == Init /\ [][Next]_vars

----------------------------------------------------------------------------
(* What the properties speak of, read from the file system and the         *)
(* variables rather than from the operators above.                         *)

Range(seq) == {seq[i] : i \in 1..Len(seq)}

Keys(dict) == {dict[i].key : i \in 1..Len(dict)}

\* The absolute path of a node.
NodeString(node) == <<SLASH>> \o JoinComps(node)

\* The digest of the content of the file a path names.
DigestOf(path) == XXH64(fs[Resolve(fs, path)].content)

\* The files a walk of `root` visits: every entry that is no directory,
\* directly in root, or at any depth when recursive.
Visited(root, recursive) ==
    LET r == Resolve(fs, root)
    IN  {n \in DOMAIN fs :
            /\ Len(n) > Len(r)
            /\ SubSeq(n, 1, Len(r)) = r
            /\ fs[n].kind # "dir"
            /\ (recursive \/ Len(n) = Len(r) + 1)}

\* The paths of the walk of `root` in the order of the visit.
RECURSIVE YieldPaths(_)
YieldPaths(yields) ==
    IF yields = <<>> THEN <<>>
    ELSE [i \in 1..Len(Head(yields).file_names) |->
             abspath(join(Head(yields).current_directory, Head(yields).file_names[i]))]
         \o YieldPaths(Tail(yields))

VisitOrder(root) == YieldPaths(walk(fs, root))

\* The paths of all buckets of a dict, bucket after bucket.
AllPaths(dict) == Concat([i \in 1..Len(dict) |-> dict[i].paths])

NoRepeat(seq) == \A i \in 1..Len(seq) : \A j \in 1..Len(seq) : seq[i] = seq[j] => i = j

Position(seq, x) == CHOOSE i \in 1..Len(seq) : seq[i] = x

\* The lines of `out` with a given sigil and digest, in order.
LinesOf(tag, key) == SelectSeq(out, LAMBDA l : l.tag = tag /\ l.key = key)

BucketOf(dict, key) == IF KeyIn(key, dict) THEN Get(dict, key) ELSE <<>>

OverallDirs == Line("=dirs", <<>>, <<>>)

OverallFiles == Line("=files", <<>>, <<>>)

DiagTags == {"target-missing", "cache-missing", "cache-format", "traceback",
             "path-missing", "file-with-directory", "directory-with-file"}

\* The directory comparison ran to its end: both indexes built, report printed.
DirCompared == pc = "done" /\ branch = "dir" /\ exit_code = 0

\* get_hash_dict(args.path1) has returned its index.
Indexed1 == pc \in {"index2", "report"} \/ DirCompared

\* get_hash_dict(args.path2) has returned its index.
Indexed2 == pc = "report" \/ DirCompared

----------------------------------------------------------------------------
(* C1: in directory mode the run ends with exit status 1 whenever a digest *)
(* is in only one of the two indexes, and with exit status 0 only when no  *)
(* digest is unique to a side.  The code never raises SystemExit after the *)
(* directory report, so this is violated.                                  *)
C1_DirectoryExitStatus ==
    (pc = "done" /\ branch = "dir" /\ exit_code = 0)
        => Keys(dict_path1) = Keys(dict_path2)

(* C2: in directory mode the overall line "input directories are           *)
(* redundant" is printed if and only if the two indexes have the same set  *)
(* of digests, whatever the sizes of the buckets and the names; two empty  *)
(* indexes give that line and nothing else.                                *)
C2_OverallIffSameDigests ==
    DirCompared =>
        /\ (OverallDirs \in Range(out)) <=> (Keys(dict_path1) = Keys(dict_path2))
        /\ Len(LinesOf("=dirs", <<>>)) <= 1
        /\ (dict_path1 = <<>> /\ dict_path2 = <<>>) => out = <<OverallDirs>>

\* Redundant directories whose shared digest has buckets of different sizes
\* and whose files have different names on the two sides.
C2_Witness ==
    /\ DirCompared
    /\ OverallDirs \in Range(out)
    /\ \E k \in Keys(dict_path1) :
           /\ Len(BucketOf(dict_path1, k)) # Len(BucketOf(dict_path2, k))
           /\ Range(BucketOf(dict_path1, k)) \cap Range(BucketOf(dict_path2, k)) = {}

(* C3: in file mode with verbose off, equal digests give the overall line  *)
(* "input files are redundant", preceded by exactly one redundant-pair     *)
(* line with both absolute paths iff the two path strings differ, and exit *)
(* status 0; different digests give exactly one '<' line for path1 and one *)
(* '>' line for path2 and exit status 1.                                   *)
C3_FileMode ==
    (pc = "done" /\ isfile(fs, args.path1) /\ isfile(fs, args.path2) /\ ~args.verbose)
        => LET abs1 == NodeString(Resolve(fs, args.path1))
               abs2 == NodeString(Resolve(fs, args.path2))
           IN  IF DigestOf(args.path1) = DigestOf(args.path2)
               THEN /\ exit_code = 0
                    /\ out = (IF args.path1 # args.path2
                              THEN <<Line("=", DigestOf(args.path1), <<abs1, abs2>>)>>
                              ELSE <<>>) \o <<OverallFiles>>
               ELSE /\ exit_code = 1
                    /\ out = <<Line("<", DigestOf(args.path1), <<abs1>>),
                               Line(">", DigestOf(args.path2), <<abs2>>)>>

\* The same file under two textually distinct paths: the pair line is printed.
C3_Witness ==
    /\ pc = "done" /\ branch = "file" /\ ~args.verbose
    /\ args.path1 # args.path2
    /\ Resolve(fs, args.path1) = Resolve(fs, args.path2)
    /\ Len(out) = 2 /\ out[1].tag = "=" /\ exit_code = 0

(* C4: when a path does not exist, or one is a file and the other a        *)
(* directory, main prints a diagnostic and exits with status 1 without     *)
(* computing a digest, building an index or printing a finding.            *)
C4_Rejected ==
    (\/ ~exists(fs, args.path1) \/ ~exists(fs, args.path2)
     \/ (isfile(fs, args.path1) /\ isdir(fs, args.path2))
     \/ (isdir(fs, args.path1) /\ isfile(fs, args.path2)))
        => /\ pc \in {"start", "done"}
           /\ hashed = <<>>
           /\ dict_path1 = <<>> /\ dict_path2 = <<>> /\ hash_cache = EmptyCache
           /\ \A i \in 1..Len(out) : out[i].tag \in DiagTags
           /\ pc = "done" => (exit_code = 1 /\ out # <<>>)

\* A file against a directory, and a missing path against a file, rejected.
C4_Witness ==
    /\ pc = "done" /\ exit_code = 1
    /\ \/ isfile(fs, args.path1) /\ isdir(fs, args.path2)
       \/ ~exists(fs, args.path1) /\ isfile(fs, args.path2)

(* C5: a run given a cache source that does not exist ends with exit       *)
(* status 1 in file mode and in directory mode alike.  File mode never     *)
(* loads the cache, so this is violated.                                   *)
C5_MissingCacheSourceFails ==
    (/\ pc = "done" /\ branch \in {"file", "dir"}
     /\ \E i \in 1..Len(args.cache_file) : ~exists(fs, args.cache_file[i]))
        => exit_code = 1

(* C6: a visited file whose absolute path is a key of the hash cache is    *)
(* put in the bucket of the cached digest and xxh3 is not called for it,   *)
(* also when the cached digest is not the digest of the content; a file    *)
(* that is no key of the cache is put in the bucket of the computed digest.*)
C6_FileIndexedRight(dict, n) ==
    LET p == NodeString(n)
    IN  IF p \in DOMAIN hash_cache
        THEN /\ p \in Range(BucketOf(dict, hash_cache[p]))
             /\ p \notin Range(hashed)
        ELSE /\ p \in Range(BucketOf(dict, XXH64(fs[n].content)))
             /\ p \in Range(hashed)

C6_CacheBeforeProvider ==
    /\ Indexed1 =>
           \A n \in Visited(args.path1, args.recursive) : C6_FileIndexedRight(dict_path1, n)
    /\ Indexed2 =>
           \A n \in Visited(args.path2, args.recursive) : C6_FileIndexedRight(dict_path2, n)

\* A stale entry was used as it is, and another file was computed.
C6_Witness ==
    /\ Indexed1
    /\ \E n \in Visited(args.path1, args.recursive) :
           /\ NodeString(n) \in DOMAIN hash_cache
           /\ fs[n].kind = "file"
           /\ hash_cache[NodeString(n)] # XXH64(fs[n].content)
    /\ \E n \in Visited(args.path1, args.recursive) :
           NodeString(n) \notin DOMAIN hash_cache

(* C7: the directory report has one '{' line for each digest whose bucket  *)
(* in A holds two paths or more ('}' for B), one '<' line per path of each *)
(* digest of A that B lacks, one '>' line per path of each digest of B     *)
(* that A lacks, exactly one '=' line, A's paths then B's, for each digest *)
(* of both, and no such line for any other digest; each digest is of       *)
(* exactly one of the three classes.                                       *)
C7_PathLines(tag, key, paths) == [i \in 1..Len(paths) |-> Line(tag, key, <<paths[i]>>)]

C7_Findings ==
    DirCompared =>
        /\ \A k \in Keys(dict_path1) \cup Keys(dict_path2) :
              LET b1 == BucketOf(dict_path1, k)
                  b2 == BucketOf(dict_path2, k)
              IN  /\ LinesOf("{", k) = IF Len(b1) >= 2 THEN <<Line("{", k, b1)>> ELSE <<>>
                  /\ LinesOf("}", k) = IF Len(b2) >= 2 THEN <<Line("}", k, b2)>> ELSE <<>>
                  /\ LinesOf("<", k) = IF b2 = <<>> THEN C7_PathLines("<", k, b1) ELSE <<>>
                  /\ LinesOf(">", k) = IF b1 = <<>> THEN C7_PathLines(">", k, b2) ELSE <<>>
                  /\ LinesOf("=", k) = IF b1 # <<>> /\ b2 # <<>>
                                       THEN <<Line("=", k, b1 \o b2)>> ELSE <<>>
                  /\ Cardinality({t \in {"<", ">", "="} : LinesOf(t, k) # <<>>}) = 1
        /\ \A i \in 1..Len(out) :
              out[i].tag \in {"{", "}", "<", ">", "="}
                  => out[i].key \in Keys(dict_path1) \cup Keys(dict_path2)

\* A report with an internal duplicate, a unique and a redundant digest.
C7_Witness ==
    /\ DirCompared
    /\ \E i \in 1..Len(out) : out[i].tag \in {"{", "}"}
    /\ \E i \in 1..Len(out) : out[i].tag \in {"<", ">"}
    /\ \E i \in 1..Len(out) : out[i].tag = "=" /\ Len(out[i].paths) >= 3

(* C8: load_hash_cache over existing sources fails with the format         *)
(* diagnostic iff no line of any source matches; otherwise it succeeds,    *)
(* each matching line gives the entry of its absolute path (the last line  *)
(* of a path winning), and the other lines and sources are skipped.        *)
C8_SourceLines == Concat([i \in 1..Len(args.cache_file) |-> ReadLines(fs, args.cache_file[i])])

C8_Matching == SelectSeq(C8_SourceLines, LAMBDA l : search(l).matched)

C8_CacheBuild ==
    (/\ branch = "dir" /\ pc # "index1" /\ args.cache_file # <<>>
     /\ \A i \in 1..Len(args.cache_file) : isfile(fs, args.cache_file[i]))
        => IF C8_Matching = <<>>
           THEN /\ pc = "done" /\ exit_code = 1
                /\ Len(out) = 1 /\ out[1].tag = "cache-format"
                /\ dict_path1 = <<>>
           ELSE /\ Indexed1
                /\ \A i \in 1..Len(out) : out[i].tag \notin DiagTags
                /\ DOMAIN hash_cache = {abspath(search(l).group2) : l \in Range(C8_Matching)}
                /\ \A i \in 1..Len(C8_Matching) :
                      LET m == search(C8_Matching[i])
                      IN  \/ hash_cache[abspath(m.group2)] = m.group1
                          \/ \E j \in (i + 1)..Len(C8_Matching) :
                                 abspath(search(C8_Matching[j]).group2) = abspath(m.group2)

\* A first source with lines none of which matches, a second with a match:
\* the build succeeds.
C8_Witness ==
    /\ Indexed1
    /\ Len(args.cache_file) = 2
    /\ isfile(fs, args.cache_file[1]) /\ isfile(fs, args.cache_file[2])
    /\ ReadLines(fs, args.cache_file[1]) # <<>>
    /\ \A l \in Range(ReadLines(fs, args.cache_file[1])) : ~search(l).matched
    /\ hash_cache # EmptyCache

(* C9: the buckets of a returned index partition the visited files: no     *)
(* bucket is empty, every visited path is in exactly one bucket exactly    *)
(* once, in the order of the visit; the visited files are those directly   *)
(* in the root when recursive is off, and those of the root and of every   *)
(* subdirectory at any depth when it is on.                                *)
C9_Partition(dict, root) ==
    /\ \A i \in 1..Len(dict) : dict[i].paths # <<>>
    /\ NoRepeat([i \in 1..Len(dict) |-> dict[i].key])
    /\ NoRepeat(AllPaths(dict))
    /\ Range(AllPaths(dict)) = {NodeString(n) : n \in Visited(root, args.recursive)}
    /\ \A i \in 1..Len(dict) : \A j \in 1..Len(dict[i].paths) : \A k \in 1..Len(dict[i].paths) :
           j < k => Position(VisitOrder(root), dict[i].paths[j])
                        < Position(VisitOrder(root), dict[i].paths[k])

C9_IndexPartitionsVisited ==
    /\ Indexed1 => C9_Partition(dict_path1, args.path1)
    /\ Indexed2 => C9_Partition(dict_path2, args.path2)

\* A recursive index with a file two directories down and a bucket of two.
C9_Witness ==
    /\ Indexed1 /\ args.recursive
    /\ \E n \in Visited(args.path1, TRUE) : Len(n) >= Len(Resolve(fs, args.path1)) + 3
    /\ \E n \in Visited(args.path1, TRUE) : Len(n) = Len(Resolve(fs, args.path1)) + 1
    /\ \E i \in 1..Len(dict_path1) : Len(dict_path1[i].paths) >= 2

(* C10: for every kind of path1 and path2, main ends by running the file   *)
(* comparison, by running the directory comparison, or by printing a       *)
(* diagnostic and exiting with status 1.  Two existing paths that are      *)
(* neither both files nor both directories nor a file and a directory fall *)
(* through every branch, so this is violated.                              *)
C10_VerdictOrDiagnostic ==
    pc = "done" =>
        \/ branch \in {"file", "dir"}
        \/ (exit_code = 1 /\ \E i \in 1..Len(out) : out[i].tag \in DiagTags)

====
